---- MODULE Spec2Model ----
(***************************************************************************)
(* Model of scripts/generate-benchmark-charts.py: main() creates the       *)
(* output directory, runs the five figure renderers in sequence, each of   *)
(* which builds a figure, saves it as .pdf and .png, closes it and prints  *)
(* a "Generated" line, and finally prints a manifest of the *.pdf files    *)
(* found in the output directory.                                          *)
(*                                                                         *)
(* Units: latencies in microseconds (as in RESULTS), trust premiums and    *)
(* throughput in tenths (58.5 -> 585, 77.2 -> 772), angles in milliradian. *)
(* An OSError raised by mkdir or savefig is not caught anywhere in the     *)
(* script: it propagates out of main() and ends the process with a         *)
(* traceback, which is the position pc = "raised".                         *)
(***************************************************************************)
EXTENDS Integers, Sequences, FiniteSets, TLC

VARIABLES
    pc,         \* position of main(): start, mkdir, draw, pdf, png, print, manifest, done, raised
    cur,        \* index (1..5) of the renderer main() is in; 0 before the first
    dirExists,  \* OUTPUT_DIR exists on the filesystem
    writable,   \* the output path can be created / written at all
    files,      \* names <<base, ext>> of the files present in OUTPUT_DIR
    fig,        \* content of pyplot's current figure (NoFigure when none is open)
    rng,        \* state of the process-wide numpy random generator
    stdout,     \* lines printed so far, <<kind, base, ext>>
    log,        \* history: filesystem and renderer events of this run, <<kind, k, ext>>
    prevSeries, \* history: the series the previous run's timeline renderer drew
    runs        \* number of invocations of the script so far

vars == <<pc, cur, dirExists, writable, files, fig, rng, stdout, log, prevSeries, runs>>

----------------------------------------------------------------------------
(* Bounds of the model *)

\* invocations of the script that are followed
MaxRuns == 2
\* prior states of the process-wide generator that are tried: 0..MaxPrior
MaxPrior == 2
\* size of the state space of the abstract pseudo-random generator
RngMod == 64

----------------------------------------------------------------------------
(* Data records *)

\* RESULTS['latency'], microseconds
Latency_misordered ==
    [mean |-> 116969, std |-> 37117, min |-> 33083, max |-> 273706,
     p50 |-> 113287, p75 |-> 138999, p90 |-> 167425, p95 |-> 180869,
     p99 |-> 269370, p999 |-> 226657]

Latency ==
    [mean |-> 116969, std |-> 37117, min |-> 33083, max |-> 273706,
     p50 |-> 113287, p75 |-> 138999, p90 |-> 167425, p95 |-> 180869,
     p99 |-> 226657, p999 |-> 269370]

\* RESULTS['transactions']
Transactions == [total |-> 4637, successful |-> 4632, failed |-> 5]

\* RESULTS['tx_mix'][*]['pct'], tenths of a percent, in dictionary order
TxMixPct == <<448, 433, 41, 38, 40>>

\* COMPARISON in dictionary order; trust_premium in tenths
COMPARISON ==
    << [name |-> "GridTokenX",  latency |-> 117,   tps |-> 77,   trust_premium |-> 585],
       [name |-> "Hyperledger", latency |-> 350,   tps |-> 200,  trust_premium |-> 1750],
       [name |-> "Ethereum",    latency |-> 12000, tps |-> 30,   trust_premium |-> 60000],
       [name |-> "PostgreSQL",  latency |-> 2,     tps |-> 5000, trust_premium |-> 10] >>

\* the renderers in the order main() calls them, by the base name each saves under
FIGURES_swapped ==
    << "transaction_mix", "latency_distribution", "platform_comparison",
       "benchmark_summary", "throughput_timeline" >>

FIGURES ==
    << "latency_distribution", "transaction_mix", "platform_comparison",
       "benchmark_summary", "throughput_timeline" >>

NumFigures == Len(FIGURES)

\* files that may lie in the output directory before the first run
PreExisting ==
    { <<"latency_distribution", "pdf">>, <<"old_chart", "pdf">>, <<"notes", "png">> }

\* every pdf name the directory can hold, in the order sorted() yields
SortedPdfNames ==
    << "benchmark_summary", "latency_distribution", "old_chart",
       "platform_comparison", "throughput_timeline", "transaction_mix" >>

----------------------------------------------------------------------------
(* Helpers *)

Range(s) == { s[i] : i \in 1..Len(s) }

\* s[lo] + ... + s[hi]
RECURSIVE SumRange(_, _, _)
SumRange(s, lo, hi) ==
    IF lo > hi THEN 0
    ELSE IF lo = hi THEN s[lo]
    ELSE LET mid == (lo + hi) \div 2
         IN  SumRange(s, lo, mid) + SumRange(s, mid + 1, hi)

SumSeq(s) == SumRange(s, 1, Len(s))

Abs(x) == IF x < 0 THEN -x ELSE x

NoFigure ==
    [kind |-> 0, bars |-> <<>>, colors |-> <<>>, labels |-> <<>>,
     annot |-> {}, hline |-> 0, centre |-> 0]

----------------------------------------------------------------------------
(* Number formatting and the pseudo-random generator *)

\* f'{n/d:.0f}' for n >= 0: the quotient rounded to nearest, ties to even
FormatF0_truncating(n, d) == n \div d

FormatF0(n, d) ==
    LET q == n \div d
        r == n % d
    IN  IF 2 * r > d \/ (2 * r = d /\ q % 2 = 1) THEN q + 1 ELSE q

\* np.random.seed(s): the generator's state becomes a function of s alone
Seed(s) == s % RngMod

\* the generator's state after n draws from st (each draw advances it by 27)
RngAfter(st, n) == (st + 27 * n) % RngMod

\* the value a draw of normal(0, 8) yields in state st, tenths of a TPS
NoiseOf(st) == ((st * st * 37 + st * 11) % RngMod) * 5 - 160

\* np.random.normal(0, 8, n) from state st: the n values drawn in sequence
NormalDraws(st, n) == [j \in 1..n |-> NoiseOf(RngAfter(st, j - 1))]

\* pi in milliradians
PiMilli == 3142

\* 1000 * sin(x / 1000) for 0 <= x < 2 pi (Bhaskara's rational approximation)
SinMilli(x) ==
    LET half(y) == (16 * y * (PiMilli - y))
                     \div ((5 * PiMilli * PiMilli - 4 * y * (PiMilli - y)) \div 1000)
    IN  IF x <= PiMilli THEN half(x) ELSE 0 - half(x - PiMilli)

\* np.clip(v, lo, hi)
Clip(v, lo, hi) == IF v < lo THEN lo ELSE IF v > hi THEN hi ELSE v

----------------------------------------------------------------------------
(* fig1_latency_distribution *)

\* the eight bar heights, microseconds (the code's values are these / 1000)
Fig1Values ==
    << Latency.min, Latency.p50, Latency.p75, Latency.p90,
       Latency.p95, Latency.p99, Latency.p999, Latency.max >>

\* the bar colours, by position
Fig1Colors ==
    << "#10B981", "#3B82F6", "#3B82F6", "#F59E0B",
       "#F59E0B", "#EF4444", "#EF4444", "#DC2626" >>

\* the legend: the colour shown for each severity band
Fig1Legend ==
    [excellent |-> "#10B981", good |-> "#3B82F6",
     warning |-> "#F59E0B", critical |-> "#EF4444"]

\* the band a latency (microseconds) falls in, by the legend's labels:
\* Excellent (<50ms), Good (50-150ms), Warning (150-200ms), Critical (>200ms)
SeverityBand(us) ==
    IF us < 50000 THEN "excellent"
    ELSE IF us <= 150000 THEN "good"
    ELSE IF us <= 200000 THEN "warning"
    ELSE "critical"

\* the text over each bar, without its "ms" suffix
Fig1Labels == [i \in 1..Len(Fig1Values) |-> FormatF0(Fig1Values[i], 1000)]

Fig1Figure ==
    [kind |-> 1, bars |-> Fig1Values, colors |-> Fig1Colors, labels |-> Fig1Labels,
     annot |-> {}, hline |-> Latency.mean, centre |-> 0]

(* fig2_transaction_mix *)

Fig2Figure ==
    [kind |-> 2, bars |-> TxMixPct, colors |-> <<>>, labels |-> TxMixPct,
     annot |-> {}, hline |-> 9989, centre |-> Transactions.total]

(* fig3_platform_comparison *)

\* the bar the '[Best]' annotation is attached to (1-based; xy=(0, ...) in the code)
BestIndex_second == 1 + 1

BestIndex == 1

Fig3Premiums == [i \in 1..Len(COMPARISON) |-> COMPARISON[i].trust_premium]

Fig3Figure ==
    [kind |-> 3, bars |-> Fig3Premiums, colors |-> <<>>,
     labels |-> [i \in 1..Len(COMPARISON) |-> FormatF0(Fig3Premiums[i], 10)],
     annot |-> {BestIndex}, hline |-> 0, centre |-> 0]

(* fig4_summary_dashboard *)

\* trust_vals of the platform panel, tenths
Fig4TrustVals_stale == <<585, 1750, 60000 \div 2, 10>>

Fig4TrustVals == <<585, 1750, 60000, 10>>

\* the number in the donut's centre text '4,637\nTxns'
Fig4Centre == 4637

Fig4Figure ==
    [kind |-> 4, bars |-> Fig4TrustVals, colors |-> <<>>,
     labels |-> [i \in 1..Len(Fig4TrustVals) |-> FormatF0(Fig4TrustVals[i], 10)],
     annot |-> {}, hline |-> 0, centre |-> Fig4Centre]

(* fig5_throughput_timeline *)

SEED == 42
NumPoints == 120
Duration == 60
WarmupEnd == 6
\* base_tps, tenths
BaseTps == 772
ClipLo == 500
ClipHi == 1000

\* np.random.seed(42): the state the draws start from, whatever the state r before
Fig5StartState_unseeded(r) == r

Fig5StartState(r) == Seed(SEED)

\* time_points[i] <= warmup_end, for the 0-based sample i of linspace(0, 60, 120)
InWarmup(i) == Duration * i <= WarmupEnd * (NumPoints - 1)

\* tps_values (1-based here) drawn from generator state st
Fig5Series(st) ==
    LET noise == NormalDraws(st, NumPoints)
    IN  [j \in 1..NumPoints |->
            Clip(BaseTps + noise[j]
                   + (50 * SinMilli((100 * Duration * (j - 1)) \div (NumPoints - 1))) \div 1000,
                 ClipLo, ClipHi)]

\* the samples after the warmup boundary
PostWarmup(series) ==
    SelectSeq([j \in 1..Len(series) |-> <<j, series[j]>>],
              LAMBDA p : ~InWarmup(p[1] - 1))

PostWarmupSum(series) ==
    LET pw == PostWarmup(series)
    IN  SumSeq([j \in 1..Len(pw) |-> pw[j][2]])

Fig5Figure(st) ==
    [kind |-> 5, bars |-> Fig5Series(st), colors |-> <<>>, labels |-> <<>>,
     annot |-> {}, hline |-> BaseTps, centre |-> 0]

----------------------------------------------------------------------------
(* The run of main() *)

Line(kind, base, ext) == <<kind, base, ext>>
Event(kind, k, ext) == <<kind, k, ext>>

\* the figure renderer k builds, given the generator state its draws start from
FigureOf(k, st) ==
    CASE k = 1 -> Fig1Figure
      [] k = 2 -> Fig2Figure
      [] k = 3 -> Fig3Figure
      [] k = 4 -> Fig4Figure
      [] OTHER -> Fig5Figure(st)

\* where control goes when mkdir or savefig raises OSError: nothing in the
\* script catches it, so it leaves main() (the argument is the statement after)
OnOSError_swallowed(next) == next

OnOSError(next) == "raised"

\* where main() continues after renderer k returns
AfterRenderer(k) == IF k < NumFigures THEN "draw" ELSE "manifest"

\* the '*.pdf' entries of the directory in sorted order, one manifest line each
ManifestLines(fs) ==
    LET names == SelectSeq(SortedPdfNames, LAMBDA b : <<b, "pdf">> \in fs)
    IN  [i \in 1..Len(names) |-> Line("file", names[i], "pdf")]

Init ==
    /\ pc = "start"
    /\ cur = 0
    /\ dirExists \in BOOLEAN
    /\ writable \in BOOLEAN
    /\ files \in (IF dirExists THEN SUBSET PreExisting ELSE {{}})
    /\ fig = NoFigure
    /\ rng \in 0..MaxPrior
    /\ stdout = <<>>
    /\ log = <<>>
    /\ prevSeries = <<>>
    /\ runs = 1

\* main(): the banner and the output-directory line
Banner ==
    /\ pc = "start"
    /\ pc' = "mkdir"
    /\ stdout' = Append(stdout, Line("banner", "", ""))
    /\ UNCHANGED <<cur, dirExists, writable, files, fig, rng, log, prevSeries, runs>>

\* create_output_dir(): mkdir(parents=True, exist_ok=True)
CreateOutputDir ==
    /\ pc = "mkdir"
    /\ IF dirExists \/ writable
       THEN /\ dirExists' = TRUE
            /\ log' = Append(log, Event("mkdir", 0, ""))
            /\ pc' = "draw"
            /\ cur' = 1
       ELSE /\ pc' = OnOSError("draw")
            /\ UNCHANGED <<dirExists, log, cur>>
    /\ UNCHANGED <<writable, files, fig, rng, stdout, prevSeries, runs>>

\* figN_...(): everything up to plt.tight_layout(); only fig5 touches the generator
Draw ==
    /\ pc = "draw"
    /\ LET st == IF cur = NumFigures THEN Fig5StartState(rng) ELSE rng
       IN  /\ fig' = FigureOf(cur, st)
           /\ rng' = IF cur = NumFigures THEN RngAfter(st, NumPoints) ELSE rng
    /\ log' = Append(log, Event("start", cur, ""))
    /\ pc' = "pdf"
    /\ UNCHANGED <<cur, dirExists, writable, files, stdout, prevSeries, runs>>

\* plt.savefig(OUTPUT_DIR / '<base>.<ext>'): writes the file or raises OSError
Savefig(ext, next) ==
    \/ /\ writable
       /\ files' = files \cup {<<FIGURES[cur], ext>>}
       /\ log' = Append(log, Event("write", cur, ext))
       /\ pc' = next
    \/ /\ pc' = OnOSError(next)
       /\ UNCHANGED <<files, log>>

SavePdf ==
    /\ pc = "pdf"
    /\ Savefig("pdf", "png")
    /\ UNCHANGED <<cur, dirExists, writable, fig, rng, stdout, prevSeries, runs>>

SavePng ==
    /\ pc = "png"
    /\ Savefig("png", "print")
    /\ UNCHANGED <<cur, dirExists, writable, fig, rng, stdout, prevSeries, runs>>

\* plt.close(); print("Generated: <base>.pdf"); return to main()
ClosePrint ==
    /\ pc = "print"
    /\ fig' = NoFigure
    /\ stdout' = Append(stdout, Line("Generated", FIGURES[cur], "pdf"))
    /\ log' = Append(log, Event("end", cur, ""))
    /\ pc' = AfterRenderer(cur)
    /\ cur' = IF cur < NumFigures THEN cur + 1 ELSE cur
    /\ prevSeries' = IF fig.kind = 5 THEN fig.bars ELSE prevSeries
    /\ UNCHANGED <<dirExists, writable, files, rng, runs>>

\* main(): the closing summary and the listing of sorted(OUTPUT_DIR.glob('*.pdf'))
Manifest ==
    /\ pc = "manifest"
    /\ stdout' = stdout \o <<Line("saved", "", ""), Line("Generated files:", "", "")>>
                        \o ManifestLines(files)
    /\ log' = Append(log, Event("manifest", 0, ""))
    /\ pc' = "done"
    /\ UNCHANGED <<cur, dirExists, writable, files, fig, rng, prevSeries, runs>>

\* the script is invoked again: a new process, the same directory
Rerun ==
    /\ pc \in {"done", "raised"}
    /\ runs < MaxRuns
    /\ runs' = runs + 1
    /\ pc' = "start"
    /\ cur' = 0
    /\ fig' = NoFigure
    /\ rng' \in (0..MaxPrior) \cup {rng}
    /\ writable' \in BOOLEAN
    /\ stdout' = <<>>
    /\ log' = <<>>
    /\ UNCHANGED <<dirExists, files, prevSeries>>

Next ==
    \/ Banner
    \/ CreateOutputDir
    \/ Draw
    \/ SavePdf
    \/ SavePng
    \/ ClosePrint
    \/ Manifest
    \/ Rerun

Spec == Init /\ [][Next]_vars

----------------------------------------------------------------------------
(* Observations on a state *)

RunOver == pc \in {"done", "raised"}

\* the files this run has written
Produced ==
    { <<FIGURES[e[2]], e[3]>> : e \in { x \in Range(log) : x[1] = "write" } }

\* the renderers this run has entered
Attempted == { e[2] : e \in { x \in Range(log) : x[1] = "start" } }

\* the renderers whose failure the run has reported (the traceback names one)
FailedRenderers == IF pc = "raised" /\ cur >= 1 THEN {cur} ELSE {}

\* the file names the manifest has listed
ManifestNames ==
    { <<l[2], l[3]>> : l \in { x \in Range(stdout) : x[1] = "file" } }

BothFormats(k) == { <<FIGURES[k], "pdf">>, <<FIGURES[k], "png">> }

IsPrefix(s, t) == Len(s) <= Len(t) /\ \A i \in 1..Len(s) : s[i] = t[i]

\* the log with each renderer named by the base name it saves under
NamedLog ==
    [i \in 1..Len(log) |->
        <<log[i][1], IF log[i][2] = 0 THEN "" ELSE FIGURES[log[i][2]], log[i][3]>>]

----------------------------------------------------------------------------
(* Claims *)

\* C1: when renderer k fails, every renderer k+1..5 is still run; the run
\* does not stop at the first failure.
C1_LaterRenderersStillRun ==
    RunOver =>
        \A k \in FailedRenderers : \A j \in (k + 1)..NumFigures : j \in Attempted

\* C2: with an unwritable output path the run reports a failure for each of
\* the five figures and still reaches its summary, which lists no file.
C2_UnwritableRunReachesSummary ==
    (RunOver /\ ~writable) =>
        /\ pc = "done"
        /\ FailedRenderers = 1..NumFigures
        /\ Line("Generated files:", "", "") \in Range(stdout)
        /\ ManifestNames = {}

\* C3: a figure's "Generated" line is printed only when both its pdf and its
\* png have been persisted, and a failed write is never passed over: while a
\* format of an entered figure is missing, the renderer is still at its
\* writes or the run has ended in the raised error of that figure.
C3_BothFormatsOrReported ==
    \A k \in 1..NumFigures :
        /\ Line("Generated", FIGURES[k], "pdf") \in Range(stdout)
              => BothFormats(k) \subseteq (Produced \cap files)
        /\ (k \in Attempted /\ ~(BothFormats(k) \subseteq Produced))
              => (cur = k /\ pc \in {"pdf", "png", "raised"})

C3_Witness ==
    /\ pc = "raised"
    /\ cur = 2
    /\ <<FIGURES[2], "pdf">> \in Produced
    /\ <<FIGURES[2], "png">> \notin Produced
    /\ Line("Generated", FIGURES[1], "pdf") \in Range(stdout)

\* the events of a complete run, in the order the claim gives
C4_ExpectedLog ==
    << <<"mkdir", "", "">>,
       <<"start", "latency_distribution", "">>, <<"write", "latency_distribution", "pdf">>,
       <<"write", "latency_distribution", "png">>, <<"end", "latency_distribution", "">>,
       <<"start", "transaction_mix", "">>, <<"write", "transaction_mix", "pdf">>,
       <<"write", "transaction_mix", "png">>, <<"end", "transaction_mix", "">>,
       <<"start", "platform_comparison", "">>, <<"write", "platform_comparison", "pdf">>,
       <<"write", "platform_comparison", "png">>, <<"end", "platform_comparison", "">>,
       <<"start", "benchmark_summary", "">>, <<"write", "benchmark_summary", "pdf">>,
       <<"write", "benchmark_summary", "png">>, <<"end", "benchmark_summary", "">>,
       <<"start", "throughput_timeline", "">>, <<"write", "throughput_timeline", "pdf">>,
       <<"write", "throughput_timeline", "png">>, <<"end", "throughput_timeline", "">>,
       <<"manifest", "", "">> >>

\* C4: the directory is created before any file is written, the renderers
\* run in the fixed order, each one's two files written before the next
\* starts, and the manifest comes only after the last renderer has finished:
\* at every point the run's events are an initial part of that one sequence.
C4_FixedOrder == IsPrefix(NamedLog, C4_ExpectedLog)

C4_Witness == pc = "done" /\ NamedLog = C4_ExpectedLog

\* C5: at the end of a run the manifest lists exactly the files the run
\* produced, whatever files were in the directory before.
C5_ManifestIsProduced == pc = "done" => ManifestNames = Produced

\* C6: each bar of the latency figure has the legend's colour of the severity
\* band its value falls in.
C6_BarColorIsBandColor ==
    fig.kind = 1 =>
        \A i \in 1..Len(fig.bars) :
            fig.colors[i] = Fig1Legend[SeverityBand(fig.bars[i])]

\* trust premium of the baseline entry, tenths
C7_Baseline == 10

C7_Competitors(bars) == { i \in 1..Len(bars) : bars[i] # C7_Baseline }

C7_LowestCompetitor(bars, i) ==
    /\ i \in C7_Competitors(bars)
    /\ \A j \in C7_Competitors(bars) \ {i} : bars[i] < bars[j]

\* C7: the first entry is annotated as preferred exactly when its trust
\* premium is the lowest among the entries other than the baseline; with the
\* reference data that is GridTokenX (58.5 < 175, 6000) and no other entry.
C7_BestIsLowestCompetitor ==
    fig.kind = 3 =>
        /\ fig.annot = { i \in 1..Len(fig.bars) : i = 1 /\ C7_LowestCompetitor(fig.bars, i) }
        /\ fig.annot = {1}
        /\ COMPARISON[1].name = "GridTokenX"
        /\ fig.bars[1] = 585
        /\ \A j \in 2..Len(fig.bars) : fig.bars[j] # C7_Baseline => fig.bars[1] < fig.bars[j]

C7_Witness == fig.kind = 3 /\ pc = "pdf" /\ 1 \in fig.annot

\* C8: the mean drawn as the reference line of the timeline is the mean of
\* the series over the samples after the warmup boundary (to the tenth of a
\* TPS the figure shows).
C8_MeanLineIsPostWarmupMean ==
    fig.kind = 5 =>
        LET n == Len(PostWarmup(fig.bars))
        IN  2 * Abs(fig.hline * n - PostWarmupSum(fig.bars)) <= n

\* C9: every bar of the latency figure is labelled with its microseconds
\* divided by 1000 and rounded to the nearest integer; the p99 bar (226657)
\* is labelled 227 and lies in the critical band.
C9_LabelsAreRoundedMs ==
    fig.kind = 1 =>
        /\ \A i \in 1..Len(fig.bars) :
              2 * Abs(1000 * fig.labels[i] - fig.bars[i]) <= 1000
        /\ fig.bars[6] = 226657
        /\ fig.labels[6] = 227
        /\ SeverityBand(fig.bars[6]) = "critical"
        /\ fig.colors[6] = Fig1Legend.critical

C9_Witness == fig.kind = 1 /\ pc = "png" /\ Len(fig.labels) = 8

\* C10: the timeline series is the same on every invocation, whatever the
\* state of the process-wide generator before it.
C10_SeriesReproducible ==
    (fig.kind = 5 /\ prevSeries # <<>>) => fig.bars = prevSeries

C10_Witness ==
    /\ fig.kind = 5
    /\ runs = 2
    /\ Len(prevSeries) = NumPoints
    /\ Len(fig.bars) = NumPoints

\* the labels of the latency distribution in ascending order
C11_Labels == <<"min", "p50", "p75", "p90", "p95", "p99", "p999", "max">>

C11_NonDecreasing(s) == \A i \in 1..(Len(s) - 1) : s[i] <= s[i + 1]

\* C11: at every point of a run the latency values of the record are
\* non-decreasing across min, p50, p75, p90, p95, p99, p99.9, max, and so
\* are the eight bars of the latency figure from left to right.
C11_LatencyNonDecreasing ==
    /\ C11_NonDecreasing([i \in 1..Len(C11_Labels) |-> Latency[C11_Labels[i]]])
    /\ fig.kind = 1 =>
          /\ Len(fig.bars) = Len(C11_Labels)
          /\ \A i \in 1..Len(fig.bars) : fig.bars[i] = Latency[C11_Labels[i]]
          /\ C11_NonDecreasing(fig.bars)

C11_Witness == fig.kind = 1 /\ pc = "pdf" /\ Len(fig.bars) = 8

\* C12: the values the summary dashboard hard-codes agree with the records:
\* the trust-premium values of its platform panel equal, entry by entry and
\* in order, the trust_premium of each COMPARISON entry, and the total in its
\* donut centre equals the total transaction count of RESULTS.
C12_DashboardAgreesWithRecords ==
    fig.kind = 4 =>
        /\ Len(fig.bars) = Len(COMPARISON)
        /\ \A i \in 1..Len(COMPARISON) : fig.bars[i] = COMPARISON[i].trust_premium
        /\ fig.centre = Transactions.total
        /\ fig.centre = Fig2Figure.centre

C12_Witness == fig.kind = 4 /\ pc = "png" /\ Len(fig.bars) = 4 /\ fig.centre > 0

====
